---------------------------- MODULE Spec2Model ----------------------------
(***************************************************************************)
(* Model of the bbq20 keyboard input subsystem (src/app/keyboard.c) and   *)
(* of the configuration write made by src/app/usb.c.                      *)
(*                                                                         *)
(* Characters are their ASCII codes; '\0' is 0.  Key entries are referred *)
(* to by their index in the entry tables (the C code uses pointers into   *)
(* kbd_entries / btn_entries); NULL is -1.  Slots are numbered from 1.    *)
(***************************************************************************)
EXTENDS Integers, Sequences, FiniteSets, TLC

VARIABLES
    list,               \* self.list: the slot table
    mods,               \* self.mods: one flag per modifier role
    capslock,           \* self.capslock
    capslock_changed,   \* self.capslock_changed
    numlock,            \* self.numlock
    numlock_changed,    \* self.numlock_changed
    lock_callbacks,     \* self.lock_callbacks, in list order
    key_callbacks,      \* self.key_callbacks, in list order
    cfg,                \* REG_ID_CFG: the set of configuration bits that are set
    reg_hld,            \* REG_ID_HLD
    reg_frq,            \* REG_ID_FRQ
    now,                \* to_ms_since_boot(get_absolute_time())
    deadline,           \* the time the scan alarm is armed for
    ticks,              \* number of completed scan passes
    keys,               \* the positions the environment presses and releases
    jammed,             \* positions held down from power-on and never released
    phys,               \* the positions that are physically pressed
    events,             \* keyboard_inject_event calls of the last scan pass
    key_calls,          \* key-callback invocations of the last scan pass
    lock_calls,         \* lock-callback invocations of the last scan pass
    dropped,            \* positions sampled pressed and not bound in the last pass
    cyc,                \* per position: history of its current press cycle
    calls,              \* all callback invocations of the last scan pass, in order
    fifo_room,          \* number of items the event fifo still accepts
    reg_int,            \* REG_ID_INT: the set of status bits that are set
    fifo_calls,         \* fifo and status-register calls of the last scan pass
    gest,               \* latch value changes made while the Alt flag has been active
    quiet               \* number of passes in a row that sampled no position pressed

vars == <<list, mods, capslock, capslock_changed, numlock, numlock_changed,
          lock_callbacks, key_callbacks, cfg, reg_hld, reg_frq, now, deadline,
          ticks, keys, jammed, phys, events, key_calls, lock_calls, dropped, cyc,
          calls, fifo_room, reg_int, fifo_calls, gest, quiet>>

-----------------------------------------------------------------------------
(* Program constants *)

LIST_SIZE == 10

NUM_OF_ROWS == 7

NUM_OF_COLS == 6

NUM_OF_BTNS == 1

NULL == -1

\* keyboard.h key codes
KEY_JOY_UP == 1

KEY_JOY_DOWN == 2

KEY_JOY_LEFT == 3

KEY_JOY_RIGHT == 4

KEY_JOY_CENTER == 5

KEY_BTN_LEFT1 == 6

KEY_BTN_RIGHT1 == 7

KEY_BTN_LEFT2 == 17

KEY_BTN_RIGHT2 == 18

KEY_MOD_ALT == 26

KEY_MOD_SHL == 27

KEY_MOD_SHR == 28

KEY_MOD_SYM == 29

\* enum key_mod without KEY_MOD_ID_NONE
ModIds == {"SYM", "ALT", "SHL", "SHR"}

\* enum key_state
KeyStates == {"IDLE", "PRESSED", "HOLD", "RELEASED"}

\* the configuration bits of REG_ID_CFG read by the keyboard
CfgBits == {"USE_MODS", "REPORT_MODS"}

\* the configuration bits of REG_ID_CFG read by keyboard_inject_event
OverflowBits == {"OVERFLOW_INT", "OVERFLOW_ON"}

E(c, a, m) == [chr |-> c, alt |-> a, mod |-> m]

\* kbd_entries, row by row: entry r * NUM_OF_COLS + c is at index r * NUM_OF_COLS + c + 1
kbd_entries ==
    << E(KEY_JOY_CENTER, 0, "NONE"), E(87, 49, "NONE"), E(71, 47, "NONE"),
       E(83, 52, "NONE"), E(76, 34, "NONE"), E(72, 58, "NONE"),
       E(0, 0, "NONE"), E(81, 35, "NONE"), E(82, 51, "NONE"),
       E(69, 50, "NONE"), E(79, 43, "NONE"), E(85, 95, "NONE"),
       E(KEY_BTN_LEFT1, 0, "NONE"), E(126, 48, "NONE"), E(70, 54, "NONE"),
       E(0, 0, "SHL"), E(75, 39, "NONE"), E(74, 59, "NONE"),
       E(0, 0, "NONE"), E(32, 9, "NONE"), E(67, 57, "NONE"),
       E(90, 55, "NONE"), E(77, 46, "NONE"), E(78, 44, "NONE"),
       E(KEY_BTN_LEFT2, 0, "NONE"), E(0, 0, "SYM"), E(84, 40, "NONE"),
       E(68, 53, "NONE"), E(73, 45, "NONE"), E(89, 41, "NONE"),
       E(KEY_BTN_RIGHT1, 0, "NONE"), E(0, 0, "ALT"), E(86, 63, "NONE"),
       E(88, 56, "NONE"), E(36, 96, "NONE"), E(66, 33, "NONE"),
       E(0, 0, "NONE"), E(65, 42, "NONE"), E(0, 0, "SHR"),
       E(80, 64, "NONE"), E(8, 0, "NONE"), E(10, 124, "NONE") >>

\* btn_entries (BTN_KEYS): the auxiliary button
btn_entries == << E(KEY_BTN_RIGHT2, 0, "NONE") >>

\* the entry a slot's p_entry refers to: matrix entries first, then buttons
NumMatrix == NUM_OF_ROWS * NUM_OF_COLS

Positions == 0 .. (NumMatrix + NUM_OF_BTNS - 1)

Entry(k) == IF k < NumMatrix THEN kbd_entries[k + 1] ELSE btn_entries[k - NumMatrix + 1]

\* button_map[idx][btn], both from 0
button_map ==
    << << 27, 38, 61, 92 >>,
       << 42, 37, 91, 93 >>,
       << 60, 62, 123, 125 >>,
       << KEY_JOY_LEFT, KEY_JOY_DOWN, KEY_JOY_UP, KEY_JOY_RIGHT >> >>

\* the order in which one scan pass visits the positions: columns outside,
\* rows inside, then the auxiliary buttons
ScanOrder ==
    [n \in 1 .. (NumMatrix + NUM_OF_BTNS) |->
        IF n <= NumMatrix
        THEN ((n - 1) % NUM_OF_ROWS) * NUM_OF_COLS + ((n - 1) \div NUM_OF_ROWS)
        ELSE n - 1]

reg_is_bit_set(cfgv, bit) == bit \in cfgv


-----------------------------------------------------------------------------
(* Bounds of the model *)

\* number of scan passes a behaviour runs
MaxTicks == 5

\* the values REG_ID_FRQ (ms) and REG_ID_HLD (units of 10 ms) are drawn from
FrqValues == {0, 10, 15}

\* the number of items the event fifo accepts before it is full (the host does
\* not read the fifo within the time a behaviour covers)
MaxFifoRoom == 2

HldValues == {1}

\* the subscribers registered at start-up: the USB key callback
\* (src/app/usb.c:193) and one lock callback
KeySubs == << "usb" >>

LockSubs == << "irq" >>

\* the keys the environment works: SHL and 'Z'; ALT and backspace; and a
\* keyboard with nine keys held down on which 'Z' and SHL are worked
Scenarios ==
    { [keys |-> {15, 21}, jammed |-> {}],
      [keys |-> {31, 40}, jammed |-> {}],
      [keys |-> {15, 21}, jammed |-> {1, 7, 13, 19, 2, 8, 14, 20, 26}] }

-----------------------------------------------------------------------------
(* The program state threaded through one scan pass: the fields of `self`, *)
(* the registers and clock it reads, and the record of what it emitted.    *)

NoCycle == [nP |-> 0, nH |-> 0, nR |-> 0, key0 |-> 0, early |-> FALSE, fired |-> FALSE]

\* no latch has changed value since the Alt flag became active
NoGesture == [caps |-> 0, num |-> 0]

FreeItem == [p_entry |-> NULL, hold_start_time |-> 0, state |-> "IDLE", effective_key |-> 0]

\* now - hold_start_time; the uint32_t millisecond clock wraps after 49 days,
\* far beyond the time a behaviour of the model covers
Elapsed(t, start) == t - start

\* fifo_enqueue (fifo.h): the item is taken unless the fifo is full
fifo_enqueue(s) ==
    IF s.fifo_room > 0
    THEN [s EXCEPT !.fifo_room = @ - 1, !.fifo_calls = Append(@, "fifo_enqueue")]
    ELSE [s EXCEPT !.fifo_calls = Append(@, "fifo_enqueue_failed")]

\* fifo_enqueue_force (fifo.h): the item is taken in place of the oldest one
fifo_enqueue_force(s) ==
    [s EXCEPT !.fifo_calls = Append(@, "fifo_enqueue_force")]

\* reg_set_bit(REG_ID_INT, INT_OVERFLOW) (reg.h)
reg_set_bit_overflow(s) ==
    [s EXCEPT !.reg_int = @ \cup {"OVERFLOW"}, !.fifo_calls = Append(@, "reg_set_bit")]

\* on_overflow with the forced enqueue made only when the status bit is enabled
on_overflow_nested(s) ==
    IF reg_is_bit_set(s.cfg, "OVERFLOW_INT")
    THEN IF reg_is_bit_set(s.cfg, "OVERFLOW_ON")
         THEN fifo_enqueue_force(reg_set_bit_overflow(s))
         ELSE reg_set_bit_overflow(s)
    ELSE s

\* src/app/keyboard.c:412-416: a failed enqueue
on_overflow(s) ==
    LET s1 == IF reg_is_bit_set(s.cfg, "OVERFLOW_INT") THEN reg_set_bit_overflow(s) ELSE s
    IN  IF reg_is_bit_set(s.cfg, "OVERFLOW_ON") THEN fifo_enqueue_force(s1) ELSE s1

\* src/app/keyboard.c:409-417: the event is offered to the fifo
enqueue_event(s) ==
    IF s.fifo_room > 0 THEN fifo_enqueue(s) ELSE on_overflow(fifo_enqueue(s))

\* call_key_callbacks that notifies nobody when the fifo refused the event
call_key_callbacks_if_queued(s, key, state) ==
    LET cs == [n \in 1 .. Len(s.key_callbacks) |->
                 [cb |-> s.key_callbacks[n], chr |-> key, st |-> state]]
    IN  IF \E n \in 1 .. Len(s.fifo_calls) : s.fifo_calls[n] = "fifo_enqueue_failed"
        THEN s
        ELSE [s EXCEPT !.key_calls = @ \o cs,
                       !.calls = @ \o [n \in 1 .. Len(cs) |-> [kind |-> "key", cb |-> cs[n].cb]]]

\* src/app/keyboard.c:422-427: every key callback, in list order
call_key_callbacks(s, key, state) ==
    LET cs == [n \in 1 .. Len(s.key_callbacks) |->
                 [cb |-> s.key_callbacks[n], chr |-> key, st |-> state]]
    IN  [s EXCEPT !.key_calls = @ \o cs,
                  !.calls = @ \o [n \in 1 .. Len(cs) |-> [kind |-> "key", cb |-> cs[n].cb]]]

\* src/app/keyboard.c:407-428.  The event goes to the fifo and to every key
\* callback in list order; k is the position the event is about.
keyboard_inject_event(s, key, state, k) ==
    [call_key_callbacks(enqueue_event(s), key, state) EXCEPT
        !.events = Append(@, [chr |-> key, st |-> state, pos |-> k]),
        !.cyc[k] = [@ EXCEPT
                      !.nP = IF state = "PRESSED" THEN @ + 1 ELSE @,
                      !.nH = IF state = "HOLD" THEN @ + 1 ELSE @,
                      !.nR = IF state = "RELEASED" THEN @ + 1 ELSE @]]

\* src/app/keyboard.c:147-150
is_button_key(key) ==
    \/ key = KEY_BTN_RIGHT1
    \/ key = KEY_BTN_RIGHT2
    \/ key = KEY_BTN_LEFT1
    \/ key = KEY_BTN_LEFT2

\* src/app/keyboard.c:159-176
button_id(key) ==
    CASE key = KEY_BTN_LEFT1 -> 0
      [] key = KEY_BTN_LEFT2 -> 1
      [] key = KEY_BTN_RIGHT1 -> 2
      [] key = KEY_BTN_RIGHT2 -> 3
      [] OTHER -> 0

\* button_idx with the first true condition winning
button_idx_first_wins(alt, shift, ctrl) ==
    IF alt THEN 1 ELSE IF shift THEN 2 ELSE IF ctrl THEN 3 ELSE 0

\* src/app/keyboard.c:154-157: each true condition overwrites the index
button_idx(alt, shift, ctrl) ==
    LET idx0 == 0
        idx1 == IF alt THEN 1 ELSE idx0
        idx2 == IF shift THEN 2 ELSE idx1
    IN  IF ctrl THEN 3 ELSE idx2

\* apply_letter with the offset its comment states (0x32) for the lower case
apply_letter_0x32(key, shift, ctrl) ==
    IF (key >= 65) /\ (key <= 90)
    THEN IF ctrl THEN key - 64
         ELSE IF ~shift THEN key + 50
         ELSE key
    ELSE key

\* src/app/keyboard.c:184-194: the letter rules
apply_letter(key, shift, ctrl) ==
    IF (key >= 65) /\ (key <= 90)
    THEN IF ctrl THEN key - 64
         ELSE IF ~shift THEN key + 32
         ELSE key
    ELSE key

\* resolve_key with the modifier keys reported whatever CFG_REPORT_MODS is
resolve_key_always_report(entry, s) ==
    IF entry.mod = "ALT" THEN KEY_MOD_ALT
    ELSE IF entry.mod = "SHL" THEN KEY_MOD_SHL
    ELSE IF entry.mod = "SHR" THEN KEY_MOD_SHR
    ELSE IF entry.mod = "SYM" THEN KEY_MOD_SYM
    ELSE IF ~reg_is_bit_set(s.cfg, "USE_MODS") THEN entry.chr
    ELSE LET shift == (s.mods["SHL"] \/ s.mods["SHR"]) \/ s.capslock
             alt == s.mods["ALT"] \/ s.numlock
             is_button == is_button_key(entry.chr)
             ctrl == s.mods["SYM"]
             key == IF is_button
                    THEN button_map[button_idx(alt, shift, ctrl) + 1][button_id(entry.chr) + 1]
                    ELSE entry.chr
         IN  IF alt /\ ~is_button THEN entry.alt
             ELSE apply_letter(key, shift, ctrl)

\* src/app/keyboard.c:117-199: the key an entry resolves to
resolve_key(entry, s) ==
    IF entry.mod = "ALT"
    THEN IF reg_is_bit_set(s.cfg, "REPORT_MODS") THEN KEY_MOD_ALT ELSE entry.chr
    ELSE IF entry.mod = "SHL"
    THEN IF reg_is_bit_set(s.cfg, "REPORT_MODS") THEN KEY_MOD_SHL ELSE entry.chr
    ELSE IF entry.mod = "SHR"
    THEN IF reg_is_bit_set(s.cfg, "REPORT_MODS") THEN KEY_MOD_SHR ELSE entry.chr
    ELSE IF entry.mod = "SYM"
    THEN IF reg_is_bit_set(s.cfg, "REPORT_MODS") THEN KEY_MOD_SYM ELSE entry.chr
    ELSE IF ~reg_is_bit_set(s.cfg, "USE_MODS") THEN entry.chr
    ELSE LET shift == (s.mods["SHL"] \/ s.mods["SHR"]) \/ s.capslock
             alt == s.mods["ALT"] \/ s.numlock
             is_button == is_button_key(entry.chr)
             ctrl == s.mods["SYM"]
             key == IF is_button
                    THEN button_map[button_idx(alt, shift, ctrl) + 1][button_id(entry.chr) + 1]
                    ELSE entry.chr
         IN  IF alt /\ ~is_button THEN entry.alt
             ELSE apply_letter(key, shift, ctrl)

\* src/app/keyboard.c:106-210
transition_to(s, i, next_state) ==
    LET k == s.list[i].p_entry
        s1 == [s EXCEPT !.list[i].state = next_state]
    IN  IF k = NULL THEN s1
        ELSE LET eff == IF s.list[i].effective_key = 0
                        THEN resolve_key(Entry(k), s1)
                        ELSE s.list[i].effective_key
                 s2 == [s1 EXCEPT !.list[i].effective_key = eff]
             IN  IF eff = 0 THEN s2
                 ELSE keyboard_inject_event(s2, eff, next_state, k)

\* self.capslock = v; self.capslock_changed = true (keyboard.c:226-227, 238-239);
\* gest counts the changes of value made while the Alt flag is active
set_capslock(s, v) ==
    [s EXCEPT !.capslock = v,
              !.capslock_changed = TRUE,
              !.gest.caps = IF s.mods["ALT"] /\ (s.capslock # v) THEN @ + 1 ELSE @]

\* self.numlock = v; self.numlock_changed = true (keyboard.c:232-233, 244-245)
set_numlock(s, v) ==
    [s EXCEPT !.numlock = v,
              !.numlock_changed = TRUE,
              !.gest.num = IF s.mods["ALT"] /\ (s.numlock # v) THEN @ + 1 ELSE @]

\* latch_fire with the two disable rules placed before the two enable rules
latch_fire_disable_first(s) ==
    LET s1 == IF ~s.capslock_changed /\ (s.mods["SHL"] \/ s.mods["SHR"])
              THEN set_capslock(s, FALSE) ELSE s
        s2 == IF ~s1.numlock_changed /\ (s1.mods["SHL"] \/ s1.mods["SHR"])
              THEN set_numlock(s1, FALSE) ELSE s1
        s3 == IF ~s2.capslock_changed /\ s2.mods["SHR"] /\ s2.mods["ALT"]
              THEN set_capslock(s2, TRUE) ELSE s2
    IN  IF ~s3.numlock_changed /\ s3.mods["SHL"] /\ s3.mods["ALT"]
        THEN set_numlock(s3, TRUE) ELSE s3

\* latch_fire with the capslock disable rule not guarded by capslock_changed
latch_fire_unguarded(s) ==
    LET s1 == IF ~s.capslock_changed /\ s.mods["SHR"] /\ s.mods["ALT"]
              THEN set_capslock(s, TRUE) ELSE s
        s2 == IF ~s1.numlock_changed /\ s1.mods["SHL"] /\ s1.mods["ALT"]
              THEN set_numlock(s1, TRUE) ELSE s1
        s3 == IF s2.mods["SHL"] \/ s2.mods["SHR"]
              THEN set_capslock(s2, FALSE) ELSE s2
    IN  IF ~s3.numlock_changed /\ (s3.mods["SHL"] \/ s3.mods["SHR"])
        THEN set_numlock(s3, FALSE) ELSE s3

\* src/app/keyboard.c:224-246: capslock enable, numlock enable, capslock
\* disable, numlock disable, in the code's order
latch_fire(s) ==
    LET s1 == IF ~s.capslock_changed /\ s.mods["SHR"] /\ s.mods["ALT"]
              THEN set_capslock(s, TRUE) ELSE s
        s2 == IF ~s1.numlock_changed /\ s1.mods["SHL"] /\ s1.mods["ALT"]
              THEN set_numlock(s1, TRUE) ELSE s1
        s3 == IF ~s2.capslock_changed /\ (s2.mods["SHL"] \/ s2.mods["SHR"])
              THEN set_capslock(s2, FALSE) ELSE s2
    IN  IF ~s3.numlock_changed /\ (s3.mods["SHL"] \/ s3.mods["SHR"])
        THEN set_numlock(s3, FALSE) ELSE s3

\* src/app/keyboard.c:248-252: the changed flags are cleared when Alt is not active
clear_changed(s) ==
    IF ~s.mods["ALT"]
    THEN [s EXCEPT !.capslock_changed = FALSE, !.numlock_changed = FALSE]
    ELSE s

\* src/app/keyboard.c:224-252: the latch rules of a press
latch_rules(s) == clear_changed(latch_fire(s))

\* src/app/keyboard.c:258-265
call_lock_callbacks(s, k) ==
    IF (Len(s.lock_callbacks) > 0) /\ (s.capslock_changed \/ s.numlock_changed)
    THEN [s EXCEPT !.lock_calls = @ \o [n \in 1 .. Len(s.lock_callbacks) |->
                                          [cb |-> s.lock_callbacks[n],
                                           caps |-> s.capslock_changed,
                                           num |-> s.numlock_changed,
                                           pos |-> k]],
                   !.calls = @ \o [n \in 1 .. Len(s.lock_callbacks) |->
                                     [kind |-> "lock", cb |-> s.lock_callbacks[n]]]]
    ELSE s

\* src/app/keyboard.c:274-280: does a slot in PRESSED go to HOLD on this pass
hold_elapsed(s, i) ==
    Elapsed(s.now, s.list[i].hold_start_time) > (s.hld * 10)

\* src/app/keyboard.c:217-272: a slot in IDLE
idle_case(s, i, pressed) ==
    LET k == s.list[i].p_entry
        m == Entry(k).mod
    IN  IF pressed
        THEN LET s1 == IF m # "NONE" THEN [s EXCEPT !.mods[m] = TRUE] ELSE s
                 f == latch_fire(s1)
                 s2 == call_lock_callbacks(latch_rules(s1), k)
                 s3 == transition_to(s2, i, "PRESSED")
             IN  [s3 EXCEPT !.list[i].hold_start_time = s.now,
                            !.cyc[k].key0 = s3.list[i].effective_key,
                            !.cyc[k].fired =
                                \/ f.capslock_changed /\ ~s.capslock_changed
                                \/ f.numlock_changed /\ ~s.numlock_changed]
        ELSE s

\* src/app/keyboard.c:274-280: a slot in PRESSED
pressed_case(s, i, pressed) ==
    IF hold_elapsed(s, i) THEN transition_to(s, i, "HOLD")
    ELSE IF ~pressed THEN transition_to(s, i, "RELEASED")
    ELSE s

\* hold_case that reports HOLD again on every pass the key stays down
hold_case_repeat(s, i, pressed) ==
    IF ~pressed THEN transition_to(s, i, "RELEASED") ELSE transition_to(s, i, "HOLD")

\* hold_case that never leaves HOLD
hold_case_sticky(s, i, pressed) == s

\* src/app/keyboard.c:282-285: a slot in HOLD
hold_case(s, i, pressed) ==
    IF ~pressed THEN transition_to(s, i, "RELEASED") ELSE s

\* released_case that leaves the modifier flag set
released_case_keep_mod(s, i) ==
    LET k == s.list[i].p_entry
        s2 == [s EXCEPT !.list[i].p_entry = NULL,
                        !.list[i].effective_key = 0,
                        !.cyc[k] = NoCycle]
    IN  transition_to(s2, i, "IDLE")

\* src/app/keyboard.c:287-296: a slot in RELEASED
released_case(s, i) ==
    LET k == s.list[i].p_entry
        m == Entry(k).mod
        s1 == IF m # "NONE"
              THEN [s EXCEPT !.mods[m] = FALSE,
                             !.gest = IF m = "ALT" THEN NoGesture ELSE @]
              ELSE s
        s2 == [s1 EXCEPT !.list[i].p_entry = NULL,
                         !.list[i].effective_key = 0,
                         !.cyc[k] = NoCycle]
    IN  transition_to(s2, i, "IDLE")

\* src/app/keyboard.c:212-298
next_item_state(s, i, pressed) ==
    CASE s.list[i].state = "IDLE" -> idle_case(s, i, pressed)
      [] s.list[i].state = "PRESSED" -> pressed_case(s, i, pressed)
      [] s.list[i].state = "HOLD" -> hold_case(s, i, pressed)
      [] s.list[i].state = "RELEASED" -> released_case(s, i)

\* find_slot with the search loop started one slot late
find_slot_skip_first(lst, k) ==
    IF \E i \in 2 .. LIST_SIZE : lst[i].p_entry = k
    THEN CHOOSE i \in 2 .. LIST_SIZE :
            /\ lst[i].p_entry = k
            /\ \A j \in 2 .. (i - 1) : lst[j].p_entry # k
    ELSE 0

\* src/app/keyboard.c:325-332: the slot bound to entry k, 0 when there is none
find_slot(lst, k) ==
    IF \E i \in 1 .. LIST_SIZE : lst[i].p_entry = k
    THEN CHOOSE i \in 1 .. LIST_SIZE :
            /\ lst[i].p_entry = k
            /\ \A j \in 1 .. (i - 1) : lst[j].p_entry # k
    ELSE 0

\* first_free that hands out the last slot when the table is full
first_free_evict(lst) ==
    IF \E i \in 1 .. LIST_SIZE : lst[i].p_entry = NULL
    THEN CHOOSE i \in 1 .. LIST_SIZE :
            /\ lst[i].p_entry = NULL
            /\ \A j \in 1 .. (i - 1) : lst[j].p_entry # NULL
    ELSE LIST_SIZE

\* src/app/keyboard.c:348-358: the first free slot, 0 when the table is full
first_free(lst) ==
    IF \E i \in 1 .. LIST_SIZE : lst[i].p_entry = NULL
    THEN CHOOSE i \in 1 .. LIST_SIZE :
            /\ lst[i].p_entry = NULL
            /\ \A j \in 1 .. (i - 1) : lst[j].p_entry # NULL
    ELSE 0

\* scan_position with the modifier flag of a pressed key set before a slot is
\* looked for, so that a dropped modifier press still sets its flag
scan_position_flag_on_drop(s, k, pressed) ==
    LET found == find_slot(s.list, k)
        free == first_free(s.list)
    IN  IF found > 0 THEN next_item_state(s, found, pressed)
        ELSE IF ~pressed THEN s
        ELSE IF free = 0
             THEN [s EXCEPT !.dropped = @ \cup {k},
                            !.mods = IF Entry(k).mod # "NONE"
                                     THEN [@ EXCEPT ![Entry(k).mod] = TRUE] ELSE @]
        ELSE next_item_state(
                [s EXCEPT !.list[free].p_entry = k,
                          !.list[free].effective_key = 0,
                          !.list[free].state = "IDLE",
                          !.cyc[k] = NoCycle],
                free, pressed)

\* src/app/keyboard.c:316-358 (and 369-400 for a button): one sampled position
scan_position(s, k, pressed) ==
    LET found == find_slot(s.list, k)
        free == first_free(s.list)
    IN  IF found > 0 THEN next_item_state(s, found, pressed)
        ELSE IF ~pressed THEN s
        ELSE IF free = 0 THEN [s EXCEPT !.dropped = @ \cup {k}]
        ELSE next_item_state(
                [s EXCEPT !.list[free].p_entry = k,
                          !.list[free].effective_key = 0,
                          !.list[free].state = "IDLE",
                          !.cyc[k] = NoCycle],
                free, pressed)

\* src/app/keyboard.c:308-401: the positions of `order` from the n-th on.
\* (The state after each position is bound as a value before the next is visited.)
RECURSIVE scan_from(_, _, _)
scan_from(s, order, n) ==
    IF n > Len(order) THEN s
    ELSE CHOOSE r \in { scan_from(s1, order, n + 1) :
                          s1 \in { scan_position(s, order[n], order[n] \in s.phys) } } : TRUE

\* The positions a pass acts on, in scan order: a position that is neither
\* bound to a slot nor sampled pressed is passed over (keyboard.c:335-342).
\* Positions bound during the pass are sampled pressed, so they are included.
pass_order(s) ==
    SelectSeq(ScanOrder,
              LAMBDA k : (k \in s.phys) \/ (\E i \in 1 .. LIST_SIZE : s.list[i].p_entry = k))

\* keyboard_is_key_down that does not look at the state of the slot
RECURSIVE is_key_down_any_state(_, _, _)
is_key_down_any_state(lst, key, i) ==
    IF i > LIST_SIZE THEN FALSE
    ELSE IF lst[i].p_entry = NULL THEN is_key_down_any_state(lst, key, i + 1)
    ELSE IF lst[i].effective_key # key THEN is_key_down_any_state(lst, key, i + 1)
    ELSE TRUE

\* src/app/keyboard.c:433-448: the loop over the slots, from slot i on
RECURSIVE is_key_down_from(_, _, _)
is_key_down_from(lst, key, i) ==
    IF i > LIST_SIZE THEN FALSE
    ELSE IF lst[i].p_entry = NULL THEN is_key_down_from(lst, key, i + 1)
    ELSE IF (lst[i].state # "PRESSED") /\ (lst[i].state # "HOLD")
         THEN is_key_down_from(lst, key, i + 1)
    ELSE IF lst[i].effective_key # key THEN is_key_down_from(lst, key, i + 1)
    ELSE TRUE

\* keyboard_is_key_down answering for slots in any state
keyboard_is_key_down_any_state(lst, key) == is_key_down_any_state(lst, key, 1)

\* src/app/keyboard.c:431-449
keyboard_is_key_down(lst, key) == is_key_down_from(lst, key, 1)

\* keyboard_add_key_callback linking the callback at the head of the list
keyboard_add_key_callback_head(cbs, callback) == << callback >> \o cbs

\* src/app/keyboard.c:457-471: the callback is linked after the last one
keyboard_add_key_callback(cbs, callback) == Append(cbs, callback)

\* src/app/keyboard.c:473-487
keyboard_add_lock_callback(cbs, callback) == Append(cbs, callback)

\* src/app/keyboard.c:403-404: the alarm's next deadline; a return value of 0
\* leaves the alarm unarmed
rearm(prev, frq) == IF frq = 0 THEN NULL ELSE prev + frq

-----------------------------------------------------------------------------
(* Actions *)

\* the state before a pass, as the record threaded through it
PassState ==
    [list |-> list, mods |-> mods, capslock |-> capslock,
     capslock_changed |-> capslock_changed, numlock |-> numlock,
     numlock_changed |-> numlock_changed, lock_callbacks |-> lock_callbacks,
     key_callbacks |-> key_callbacks, cfg |-> cfg, hld |-> reg_hld, now |-> now,
     phys |-> phys, events |-> << >>, key_calls |-> << >>, lock_calls |-> << >>,
     dropped |-> {}, cyc |-> cyc, calls |-> << >>, fifo_room |-> fifo_room,
     reg_int |-> reg_int, fifo_calls |-> << >>, gest |-> gest]

\* src/app/keyboard.c:499-528, with the registers and the keys the environment
\* works drawn from the given sets
InitWith(scenarios, cfgs, frqs) ==
    /\ list = [i \in 1 .. LIST_SIZE |-> FreeItem]
    /\ mods = [m \in ModIds |-> FALSE]
    /\ capslock = FALSE
    /\ capslock_changed = FALSE
    /\ numlock = FALSE
    /\ numlock_changed = FALSE
    /\ lock_callbacks = LockSubs
    /\ key_callbacks = KeySubs
    /\ cfg \in cfgs
    /\ reg_hld \in HldValues
    /\ reg_frq \in frqs
    /\ now = 0
    /\ deadline = reg_frq
    /\ ticks = 0
    /\ \E sc \in scenarios :
          /\ keys = sc.keys
          /\ jammed = sc.jammed
          /\ phys = sc.jammed
    /\ events = << >>
    /\ key_calls = << >>
    /\ lock_calls = << >>
    /\ dropped = {}
    /\ cyc = [k \in Positions |-> NoCycle]
    /\ calls = << >>
    /\ fifo_room = MaxFifoRoom
    /\ reg_int = {}
    /\ fifo_calls = << >>
    /\ gest = NoGesture
    /\ quiet = 0

Init == InitWith(Scenarios, SUBSET CfgBits, FrqValues)

\* src/app/keyboard.c:302-405
timer_task ==
    /\ deadline # NULL
    /\ now = deadline
    /\ ticks < MaxTicks
    /\ \E s \in { scan_from(PassState, pass_order(PassState), 1) } :
           /\ list' = s.list
           /\ mods' = s.mods
           /\ capslock' = s.capslock
           /\ capslock_changed' = s.capslock_changed
           /\ numlock' = s.numlock
           /\ numlock_changed' = s.numlock_changed
           /\ events' = s.events
           /\ key_calls' = s.key_calls
           /\ lock_calls' = s.lock_calls
           /\ dropped' = s.dropped
           /\ cyc' = s.cyc
           /\ calls' = s.calls
           /\ fifo_room' = s.fifo_room
           /\ reg_int' = s.reg_int
           /\ fifo_calls' = s.fifo_calls
           /\ gest' = s.gest
    /\ deadline' = rearm(deadline, reg_frq)
    /\ ticks' = ticks + 1
    /\ quiet' = IF phys = {} THEN quiet + 1 ELSE 0
    /\ UNCHANGED <<lock_callbacks, key_callbacks, cfg, reg_hld, reg_frq, now,
                   keys, jammed, phys>>

\* src/app/usb.c:178-182: mounting the USB device sets CFG_REPORT_MODS
tud_mount_cb ==
    /\ ~reg_is_bit_set(cfg, "REPORT_MODS")
    /\ cfg' = cfg \cup {"REPORT_MODS"}
    /\ UNCHANGED <<list, mods, capslock, capslock_changed, numlock, numlock_changed,
                   lock_callbacks, key_callbacks, reg_hld, reg_frq, now, deadline,
                   ticks, keys, jammed, phys, events, key_calls, lock_calls,
                   dropped, cyc, calls, fifo_room, reg_int, fifo_calls, gest,
                   quiet>>

\* a key goes down (gpio_get of its row reads 0 from now on)
Press ==
    \E k \in keys \ phys :
        /\ phys' = phys \cup {k}
        /\ cyc' = [cyc EXCEPT ![k].early = FALSE]
        /\ UNCHANGED <<list, mods, capslock, capslock_changed, numlock,
                       numlock_changed, lock_callbacks, key_callbacks, cfg, reg_hld,
                       reg_frq, now, deadline, ticks, keys, jammed, events,
                       key_calls, lock_calls, dropped, calls, fifo_room, reg_int,
                       fifo_calls, gest, quiet>>

\* a key comes up; `early` records that it came up while its slot was in
\* PRESSED with less than the hold threshold elapsed since hold_start_time
Release ==
    \E k \in keys \cap phys :
        /\ phys' = phys \ {k}
        /\ LET i == find_slot(list, k)
           IN  cyc' = [cyc EXCEPT ![k].early =
                          /\ i > 0
                          /\ list[i].state = "PRESSED"
                          /\ Elapsed(now, list[i].hold_start_time) < reg_hld * 10]
        /\ UNCHANGED <<list, mods, capslock, capslock_changed, numlock,
                       numlock_changed, lock_callbacks, key_callbacks, cfg, reg_hld,
                       reg_frq, now, deadline, ticks, keys, jammed, events,
                       key_calls, lock_calls, dropped, calls, fifo_room, reg_int,
                       fifo_calls, gest, quiet>>

\* time passes until the scan alarm is due
Advance ==
    /\ deadline # NULL
    /\ now < deadline
    /\ now' = deadline
    /\ UNCHANGED <<list, mods, capslock, capslock_changed, numlock, numlock_changed,
                   lock_callbacks, key_callbacks, cfg, reg_hld, reg_frq, deadline,
                   ticks, keys, jammed, phys, events, key_calls, lock_calls,
                   dropped, cyc, calls, fifo_room, reg_int, fifo_calls, gest,
                   quiet>>

Next ==
    \/ timer_task
    \/ tud_mount_cb
    \/ Press
    \/ Release
    \/ Advance

Spec == Init /\ [][Next]_vars

-----------------------------------------------------------------------------
(* The same program with the latch keys worked: Alt and ShiftRight, and Alt *)
(* and ShiftLeft on a keyboard whose ShiftRight is held down.  A pass scans *)
(* Alt, then ShiftRight, then ShiftLeft.                                     *)

LatchScenarios ==
    { [keys |-> {31, 38}, jammed |-> {}],
      [keys |-> {15, 31}, jammed |-> {38}] }

InitLatch == InitWith(LatchScenarios, {{}}, {10})

SpecLatch == InitLatch /\ [][Next]_vars

-----------------------------------------------------------------------------
(* Resolution of one key under every combination of modifier state: a slot *)
(* is bound to an entry as keyboard.c:352-354 binds it, the modifier flags, *)
(* latches and configuration bits are arbitrary, and transition_to resolves *)
(* the key for the PRESSED state.                                           *)

InitResolve ==
    /\ \E k \in Positions :
          list = [i \in 1 .. LIST_SIZE |->
                    IF i = 1 THEN [FreeItem EXCEPT !.p_entry = k] ELSE FreeItem]
    /\ mods \in [ModIds -> BOOLEAN]
    /\ capslock \in BOOLEAN
    /\ numlock \in BOOLEAN
    /\ capslock_changed = FALSE
    /\ numlock_changed = FALSE
    /\ cfg \in SUBSET CfgBits
    /\ lock_callbacks = LockSubs
    /\ key_callbacks = KeySubs
    /\ reg_hld \in HldValues
    /\ reg_frq = 10
    /\ now = 0
    /\ deadline = NULL
    /\ ticks = 0
    /\ keys = {}
    /\ jammed = {}
    /\ phys = {}
    /\ events = << >>
    /\ key_calls = << >>
    /\ lock_calls = << >>
    /\ dropped = {}
    /\ cyc = [k \in Positions |-> NoCycle]
    /\ calls = << >>
    /\ fifo_room = MaxFifoRoom
    /\ reg_int = {}
    /\ fifo_calls = << >>
    /\ gest = NoGesture
    /\ quiet = 0

\* transition_to(&self.list[0], KEY_STATE_PRESSED) on the freshly bound slot
resolve_step ==
    /\ list[1].p_entry # NULL
    /\ list[1].state = "IDLE"
    /\ \E s \in { transition_to(PassState, 1, "PRESSED") } :
           /\ list' = s.list
           /\ events' = s.events
           /\ key_calls' = s.key_calls
           /\ cyc' = s.cyc
           /\ calls' = s.calls
           /\ fifo_room' = s.fifo_room
           /\ reg_int' = s.reg_int
           /\ fifo_calls' = s.fifo_calls
    /\ UNCHANGED <<mods, capslock, capslock_changed, numlock, numlock_changed,
                   lock_callbacks, key_callbacks, cfg, reg_hld, reg_frq, now,
                   deadline, ticks, keys, jammed, phys, lock_calls, dropped, gest,
                   quiet>>

NextResolve == resolve_step

SpecResolve == InitResolve /\ [][NextResolve]_vars

-----------------------------------------------------------------------------
(* One press under every combination of modifier flags, latches and changed *)
(* flags: a slot is bound to a key and next_item_state takes it from IDLE   *)
(* with a pressed sample.                                                   *)

\* the keys pressed: ShiftLeft, 'Z', Alt, ShiftRight
PressKeys == {15, 21, 31, 38}

InitPress ==
    /\ \E k \in PressKeys :
          list = [i \in 1 .. LIST_SIZE |->
                    IF i = 1 THEN [FreeItem EXCEPT !.p_entry = k] ELSE FreeItem]
    /\ mods \in [ModIds -> BOOLEAN]
    /\ capslock \in BOOLEAN
    /\ numlock \in BOOLEAN
    /\ capslock_changed \in BOOLEAN
    /\ numlock_changed \in BOOLEAN
    /\ cfg = {"REPORT_MODS"}
    /\ lock_callbacks = LockSubs
    /\ key_callbacks = KeySubs
    /\ reg_hld \in HldValues
    /\ reg_frq = 10
    /\ now = 0
    /\ deadline = NULL
    /\ ticks = 0
    /\ keys = {}
    /\ jammed = {}
    /\ phys = {}
    /\ events = << >>
    /\ key_calls = << >>
    /\ lock_calls = << >>
    /\ dropped = {}
    /\ cyc = [k \in Positions |-> NoCycle]
    /\ calls = << >>
    /\ fifo_room = MaxFifoRoom
    /\ reg_int = {}
    /\ fifo_calls = << >>
    /\ gest = NoGesture
    /\ quiet = 0

\* next_item_state(&self.list[0], true) on the freshly bound slot
press_step ==
    /\ list[1].p_entry # NULL
    /\ list[1].state = "IDLE"
    /\ \E s \in { next_item_state(PassState, 1, TRUE) } :
           /\ list' = s.list
           /\ mods' = s.mods
           /\ capslock' = s.capslock
           /\ capslock_changed' = s.capslock_changed
           /\ numlock' = s.numlock
           /\ numlock_changed' = s.numlock_changed
           /\ events' = s.events
           /\ key_calls' = s.key_calls
           /\ lock_calls' = s.lock_calls
           /\ cyc' = s.cyc
           /\ calls' = s.calls
           /\ fifo_room' = s.fifo_room
           /\ reg_int' = s.reg_int
           /\ fifo_calls' = s.fifo_calls
           /\ gest' = s.gest
    /\ UNCHANGED <<lock_callbacks, key_callbacks, cfg, reg_hld, reg_frq, now,
                   deadline, ticks, keys, jammed, phys, dropped, quiet>>

NextPress == press_step

SpecPress == InitPress /\ [][NextPress]_vars

-----------------------------------------------------------------------------
(* Registration of callbacks and dispatch: callbacks are registered one by  *)
(* one, events are injected through keyboard_inject_event against a fifo    *)
(* with little or no room, and ShiftRight is pressed with Alt active.       *)

\* the callbacks that may be registered (each structure is registered once)
KeyCbs == {"usb", "app"}

LockCbs == {"irq", "led"}

\* the (key, state) pairs injected
InjectKeys == {8, 65}

InjectStates == {"PRESSED", "RELEASED"}

InitDispatch ==
    /\ list = [i \in 1 .. LIST_SIZE |->
                 IF i = 1 THEN [FreeItem EXCEPT !.p_entry = 38] ELSE FreeItem]
    /\ mods = [m \in ModIds |-> m = "ALT"]
    /\ capslock = FALSE
    /\ numlock = FALSE
    /\ capslock_changed = FALSE
    /\ numlock_changed = FALSE
    /\ cfg \in { X \cup {"REPORT_MODS"} : X \in SUBSET OverflowBits }
    /\ lock_callbacks = << >>
    /\ key_callbacks = << >>
    /\ reg_hld \in HldValues
    /\ reg_frq = 10
    /\ now = 0
    /\ deadline = NULL
    /\ ticks = 0
    /\ keys = {}
    /\ jammed = {}
    /\ phys = {}
    /\ events = << >>
    /\ key_calls = << >>
    /\ lock_calls = << >>
    /\ dropped = {}
    /\ cyc = [k \in Positions |-> NoCycle]
    /\ calls = << >>
    /\ fifo_room \in 0 .. MaxFifoRoom
    /\ reg_int = {}
    /\ fifo_calls = << >>
    /\ gest = NoGesture
    /\ quiet = 0

\* keyboard_add_key_callback(&callback)
add_key_callback ==
    /\ \E c \in KeyCbs \ { key_callbacks[n] : n \in 1 .. Len(key_callbacks) } :
          key_callbacks' = keyboard_add_key_callback(key_callbacks, c)
    /\ UNCHANGED <<list, mods, capslock, capslock_changed, numlock, numlock_changed,
                   lock_callbacks, cfg, reg_hld, reg_frq, now, deadline,
                   ticks, keys, jammed, phys, events, key_calls, lock_calls,
                   dropped, cyc, calls, fifo_room, reg_int, fifo_calls, gest,
                   quiet>>

\* keyboard_add_lock_callback(&callback)
add_lock_callback ==
    /\ \E c \in LockCbs \ { lock_callbacks[n] : n \in 1 .. Len(lock_callbacks) } :
          lock_callbacks' = keyboard_add_lock_callback(lock_callbacks, c)
    /\ UNCHANGED <<list, mods, capslock, capslock_changed, numlock, numlock_changed,
                   key_callbacks, cfg, reg_hld, reg_frq, now, deadline,
                   ticks, keys, jammed, phys, events, key_calls, lock_calls,
                   dropped, cyc, calls, fifo_room, reg_int, fifo_calls, gest,
                   quiet>>

\* keyboard_inject_event(key, state), called for the key at position 37
inject_step ==
    /\ \E key \in InjectKeys, state \in InjectStates :
        \E s \in { keyboard_inject_event(PassState, key, state, 37) } :
           /\ events' = s.events
           /\ key_calls' = s.key_calls
           /\ calls' = s.calls
           /\ fifo_room' = s.fifo_room
           /\ reg_int' = s.reg_int
           /\ fifo_calls' = s.fifo_calls
    /\ UNCHANGED <<list, mods, capslock, capslock_changed, numlock, numlock_changed,
                   lock_callbacks, key_callbacks, cfg, reg_hld, reg_frq, now,
                   deadline, ticks, keys, jammed, phys, lock_calls, dropped, cyc,
                   gest, quiet>>

NextDispatch ==
    \/ add_key_callback
    \/ add_lock_callback
    \/ inject_step
    \/ press_step

SpecDispatch == InitDispatch /\ [][NextDispatch]_vars

-----------------------------------------------------------------------------
(* Properties *)

\* the step is a scan pass
IsPass == ticks' = ticks + 1

Slots == 1 .. LIST_SIZE

Bound(lst) == { i \in Slots : lst[i].p_entry # NULL }

\* the events of a pass that are about position k
EventsFor(evs, k) == SelectSeq(evs, LAMBDA e : e.pos = k)

LockCallsFor(cs, k) == SelectSeq(cs, LAMBDA c : c.pos = k)

\* C1: at most LIST_SIZE slots are bound at once, and on a pass that starts
\* with every slot bound and none about to be freed, a position that is
\* sampled pressed and is not tracked is bound to no slot, has no key event
\* injected and no lock callback invoked for it; the same holds of every
\* position a pass finds pressed when no slot is free (the table may have
\* filled earlier in that pass).
C1_CapacityDrop ==
    [][IsPass =>
        /\ Cardinality(Bound(list')) <= LIST_SIZE
        /\ \A k \in dropped' :
              /\ k \in phys
              /\ \A i \in Slots : list'[i].p_entry # k
              /\ EventsFor(events', k) = << >>
              /\ LockCallsFor(lock_calls', k) = << >>
        /\ \A k \in phys :
              ( /\ Bound(list) = Slots
                /\ \A i \in Slots : list[i].state # "RELEASED"
                /\ \A i \in Slots : list[i].p_entry # k )
              => /\ \A i \in Slots : list'[i].p_entry # k
                 /\ EventsFor(events', k) = << >>
                 /\ LockCallsFor(lock_calls', k) = << >>
                 /\ k \in dropped'
                 /\ \A i \in Slots : list'[i].p_entry = list[i].p_entry
    ]_vars

\* a pass that started with every slot bound (a worked key is already in
\* HOLD, so it was bound by an earlier pass) has dropped a pressed position
W_C1 ==
    /\ dropped # {}
    /\ Bound(list) = Slots
    /\ \E i \in Slots : list[i].p_entry \in keys /\ list[i].state = "HOLD"
    /\ \E k \in dropped : k \in phys /\ (\A i \in Slots : list[i].p_entry # k)

\* C2: no two bound slots reference the same key entry.
C2_OneSlotPerEntry ==
    \A i, j \in Slots :
        (i # j /\ list[i].p_entry # NULL /\ list[j].p_entry # NULL)
            => list[i].p_entry # list[j].p_entry

\* a tracked position was sampled again (its slot went on to HOLD) while
\* another slot is bound as well
W_C2 ==
    \E i, j \in Slots :
        /\ i # j
        /\ list[i].state = "HOLD"
        /\ list[j].p_entry # NULL

\* the slot i is bound to the same position k before and after the step and
\* goes from state a to state b
Goes(i, k, a, b) ==
    /\ list[i].p_entry = k
    /\ list'[i].p_entry = k
    /\ list[i].state = a
    /\ list'[i].state = b

Ev(c, st, k) == [chr |-> c, st |-> st, pos |-> k]

\* C3: for a slot whose key resolved non-empty at its press, a pass on which the slot
\* stays in PRESSED or stays in HOLD injects no event for it, the pass that
\* takes it to HOLD injects exactly one Hold event, and the pass that takes it
\* from HOLD to RELEASED injects exactly one Released event, which completes a
\* cycle of exactly one Pressed, one Hold and one Released event.
C3_HoldOnce ==
    [][IsPass =>
        \A i \in Slots : \A k \in Positions :
            (list[i].p_entry = k /\ cyc[k].key0 # 0) =>
                /\ Goes(i, k, "PRESSED", "PRESSED") => EventsFor(events', k) = << >>
                /\ Goes(i, k, "HOLD", "HOLD") => EventsFor(events', k) = << >>
                /\ Goes(i, k, "PRESSED", "HOLD") =>
                      /\ EventsFor(events', k) = << Ev(list[i].effective_key, "HOLD", k) >>
                      /\ cyc'[k].nP = 1 /\ cyc'[k].nH = 1 /\ cyc'[k].nR = 0
                /\ Goes(i, k, "HOLD", "RELEASED") =>
                      /\ EventsFor(events', k) = << Ev(list[i].effective_key, "RELEASED", k) >>
                      /\ cyc'[k].nP = 1 /\ cyc'[k].nH = 1 /\ cyc'[k].nR = 1
    ]_vars

\* a key with a non-empty effective key was held into HOLD, stayed there for a
\* pass and was then released
W_C3 ==
    \E i \in Slots :
        /\ list[i].p_entry # NULL
        /\ list[i].state = "RELEASED"
        /\ cyc[list[i].p_entry].key0 # 0
        /\ cyc[list[i].p_entry].nH = 1
        /\ cyc[list[i].p_entry].nR = 1
        /\ now - list[i].hold_start_time >= 3 * reg_frq

\* C4 (as claimed): a key (here one whose key resolved non-empty) that came
\* up before the hold threshold had elapsed since its press goes from PRESSED
\* straight to RELEASED, and no Hold event is injected in that press cycle.
CX_C4 ==
    \A k \in Positions :
        (cyc[k].early /\ cyc[k].key0 # 0) =>
            /\ cyc[k].nH = 0
            /\ \A i \in Slots :
                  list[i].p_entry = k => list[i].state \in {"PRESSED", "RELEASED"}

\* C5 (as claimed, the "only if" half): on a pass, a slot in PRESSED whose key
\* resolved non-empty goes to HOLD, and a Hold event is injected for it, only
\* if the time since
\* hold_start_time is at least the threshold and the position is sampled
\* pressed; a not-pressed sample never produces a Hold event.
CX_C5 ==
    [][IsPass =>
        \A i \in Slots :
            ( /\ list[i].p_entry # NULL
              /\ list[i].state = "PRESSED"
              /\ list[i].effective_key # 0 ) =>
                ( ( \/ list'[i].state = "HOLD"
                    \/ \E n \in 1 .. Len(events') :
                          events'[n].pos = list[i].p_entry /\ events'[n].st = "HOLD" )
                    => ( /\ Elapsed(now, list[i].hold_start_time) >= reg_hld * 10
                         /\ list[i].p_entry \in phys ) )
    ]_vars

\* C6 (as claimed): no slot is in RELEASED between passes, and a modifier
\* flag is active only while a slot of that role is in PRESSED or HOLD.
CX_C6 ==
    /\ \A i \in Slots : list[i].state # "RELEASED"
    /\ \A m \in ModIds :
          mods[m] => \E i \in Slots :
                        /\ list[i].p_entry # NULL
                        /\ Entry(list[i].p_entry).mod = m
                        /\ list[i].state \in {"PRESSED", "HOLD"}

\* C6 (amended): a slot stays in RELEASED, bound and with its modifier flag
\* still active, until the next pass; that pass unbinds the position, clears
\* the cached key and the modifier flag and injects no event for the position.
C6_ReleasedFreedNextPass ==
    /\ [](\A i \in Slots :
            list[i].state = "RELEASED" =>
                /\ list[i].p_entry # NULL
                /\ Entry(list[i].p_entry).mod # "NONE" => mods[Entry(list[i].p_entry).mod])
    /\ [][\A i \in Slots :
            list[i].state = "RELEASED" =>
                IF IsPass
                THEN LET k == list[i].p_entry
                     IN  /\ \A j \in Slots : list'[j].p_entry # k
                         /\ EventsFor(events', k) = << >>
                         /\ Entry(k).mod # "NONE" => ~mods'[Entry(k).mod]
                         /\ list'[i].p_entry = NULL =>
                               /\ list'[i].state = "IDLE"
                               /\ list'[i].effective_key = 0
                ELSE list'[i] = list[i]
       ]_vars

\* a modifier key's slot is in RELEASED between two passes, its flag still set
W_C6 ==
    \E i \in Slots :
        /\ list[i].state = "RELEASED"
        /\ list[i].p_entry # NULL
        /\ Entry(list[i].p_entry).mod # "NONE"
        /\ mods[Entry(list[i].p_entry).mod]
        /\ now = deadline

\* C7 (as claimed): every Hold and Released event carries the key that was
\* resolved at the press of its cycle (the character of the cycle's Pressed
\* event); the key is never resolved again.
CX_C7 ==
    \A n \in 1 .. Len(events) :
        events[n].st \in {"HOLD", "RELEASED"} =>
            events[n].chr = cyc[events[n].pos].key0

\* C8 (as claimed): a press cycle whose key resolved to the empty character
\* at the press injects no event at all.
CX_C8 ==
    \A k \in Positions :
        cyc[k].key0 = 0 => (cyc[k].nP = 0 /\ cyc[k].nH = 0 /\ cyc[k].nR = 0)

\* the modifier conditions of section 4.4, from the current state
RefShift == mods["SHL"] \/ mods["SHR"] \/ capslock

RefAlt == mods["ALT"] \/ numlock

RefCtrl == mods["SYM"]

UseModifiers == "USE_MODS" \in cfg

\* the positions of the four button keys and their column in the remap table
ButtonColumn == [k \in {12, 24, 30, 42} |->
                    CASE k = 12 -> 1 [] k = 24 -> 2 [] k = 30 -> 3 [] k = 42 -> 4]

IsUpper(c) == c \in 65 .. 90

\* the effective key of a non-modifier, non-button entry as section 4.4 gives it
RefKey(e) ==
    IF ~UseModifiers THEN e.chr
    ELSE IF RefAlt THEN e.alt
    ELSE IF IsUpper(e.chr)
         THEN IF RefCtrl THEN e.chr - 64
              ELSE IF ~RefShift THEN e.chr + 32
              ELSE e.chr
    ELSE e.chr

\* C9: every non-modifier, non-button entry resolves, under every combination
\* of modifier flags, latches and USE_MODS, to the key section 4.4 gives.
C9_ResolveReference ==
    \A k \in Positions \ DOMAIN ButtonColumn :
        ( /\ list[1].p_entry = k
          /\ list[1].state = "PRESSED"
          /\ Entry(k).mod = "NONE" )
        => list[1].effective_key = RefKey(Entry(k))

\* 'A' resolved with Symbol active and neither alt nor shift: 0x01
W_C9 ==
    /\ list[1].p_entry = 37
    /\ list[1].state = "PRESSED"
    /\ UseModifiers /\ RefCtrl /\ ~RefAlt /\ ~RefShift
    /\ list[1].effective_key = 1
    /\ events = << Ev(1, "PRESSED", 37) >>

\* C10: with USE_MODS set a button key resolves to button_map[idx][button]
\* with idx 3 if ctrl, else 2 if shift, else 1 if alt, else 0.
C10_ButtonRemap ==
    \A k \in DOMAIN ButtonColumn :
        ( /\ list[1].p_entry = k
          /\ list[1].state = "PRESSED"
          /\ UseModifiers )
        => list[1].effective_key =
              button_map[IF RefCtrl THEN 4 ELSE IF RefShift THEN 3
                         ELSE IF RefAlt THEN 2 ELSE 1][ButtonColumn[k]]

\* KEY_BTN_LEFT2 resolved with ctrl, shift and alt all active: row 3 of the table
W_C10 ==
    /\ list[1].p_entry = 24
    /\ list[1].state = "PRESSED"
    /\ UseModifiers /\ RefCtrl /\ RefAlt /\ RefShift
    /\ list[1].effective_key = KEY_JOY_DOWN

\* the marker character of a modifier role
Marker(m) ==
    CASE m = "ALT" -> KEY_MOD_ALT
      [] m = "SHL" -> KEY_MOD_SHL
      [] m = "SHR" -> KEY_MOD_SHR
      [] m = "SYM" -> KEY_MOD_SYM

\* position k is bound by this step: no slot holds it before, slot i does after
NewlyBound(i, k) ==
    /\ \A j \in Slots : list[j].p_entry # k
    /\ list'[i].p_entry = k

\* C11: on every pass, a modifier key that is newly pressed has its flag set
\* and resolves to its marker with one Pressed event if REPORT_MODS is set, to
\* the empty key with no event if it is clear; its transitions to HOLD and
\* RELEASED inject one event with the marker if REPORT_MODS is set and none if
\* it is clear, the flag staying set; and the pass that frees its slot clears
\* the flag and injects nothing.
C11_ModifierReport ==
    [][IsPass =>
        \A i \in Slots : \A k \in Positions :
            Entry(k).mod # "NONE" =>
                LET m == Entry(k).mod
                    report == "REPORT_MODS" \in cfg
                    expected(st) == IF report THEN << Ev(Marker(m), st, k) >> ELSE << >>
                IN  /\ NewlyBound(i, k) =>
                          /\ list'[i].state = "PRESSED"
                          /\ mods'[m]
                          /\ list'[i].effective_key = (IF report THEN Marker(m) ELSE 0)
                          /\ EventsFor(events', k) = expected("PRESSED")
                    /\ ( \/ Goes(i, k, "PRESSED", "HOLD")
                         \/ Goes(i, k, "PRESSED", "RELEASED")
                         \/ Goes(i, k, "HOLD", "RELEASED") ) =>
                          /\ mods'[m]
                          /\ list'[i].effective_key = (IF report THEN Marker(m) ELSE 0)
                          /\ EventsFor(events', k) = expected(list'[i].state)
                    /\ (list[i].p_entry = k /\ list[i].state = "RELEASED") =>
                          /\ ~mods'[m]
                          /\ EventsFor(events', k) = << >>
    ]_vars

\* with REPORT_MODS clear a modifier key has been pressed and held into HOLD:
\* its flag is set, its key is empty and its cycle has injected no event
W_C11 ==
    \E i \in Slots :
        /\ list[i].p_entry # NULL
        /\ Entry(list[i].p_entry).mod # "NONE"
        /\ list[i].state = "HOLD"
        /\ "REPORT_MODS" \notin cfg
        /\ mods[Entry(list[i].p_entry).mod]
        /\ list[i].effective_key = 0
        /\ cyc[list[i].p_entry].nP = 0
        /\ cyc[list[i].p_entry].nH = 0

\* the slot bound to position k is in one of the given states
SlotIn(k, states) ==
    \E i \in Slots : list[i].p_entry = k /\ list[i].state \in states

\* C12: while the Alt flag stays active, capslock changes value at most once
\* and numlock changes value at most once: the count of value changes made
\* since the flag became active never exceeds one, and a pass that starts and
\* ends with the flag active changes a latch only if its changed flag was
\* clear before the pass, and leaves that flag set.
C12_LatchOncePerGesture ==
    /\ [](/\ gest.caps <= 1
          /\ gest.num <= 1
          /\ ~mods["ALT"] => gest = NoGesture)
    /\ [][(mods["ALT"] /\ mods'["ALT"]) =>
            /\ capslock' # capslock =>
                  (~capslock_changed /\ capslock_changed' /\ gest'.caps = 1)
            /\ numlock' # numlock =>
                  (~numlock_changed /\ numlock_changed' /\ gest'.num = 1)
       ]_vars

\* Alt has been held since before ShiftRight's current press, capslock has
\* changed once in this gesture, and ShiftRight's current press fired no
\* latch rule (both changed flags were already set when it was made)
W_C12 ==
    \E a, b \in Slots :
        /\ list[a].p_entry = 31
        /\ list[b].p_entry = 38
        /\ list[b].state = "PRESSED"
        /\ list[a].hold_start_time < list[b].hold_start_time
        /\ mods["ALT"]
        /\ gest.caps = 1
        /\ capslock
        /\ ~cyc[38].fired

\* C13 (as claimed): once a ShiftRight+Alt chord has set capslock and Alt has
\* been released, the pass on which Alt is pressed again evaluates its latch
\* rules with both changed flags clear (Alt is the first latch key a pass
\* scans), so that a shift key active with it sets its latch on that pass.
CX_C13 ==
    [][(IsPass /\ capslock /\ (\E i \in Slots : NewlyBound(i, 31))) =>
          /\ ~capslock_changed
          /\ ~numlock_changed
          /\ mods'["SHL"] => numlock'
    ]_vars

\* C14 (as claimed): whenever the Alt flag is inactive between passes, both
\* changed flags are clear.
CX_C14 ==
    ~mods["ALT"] => (~capslock_changed /\ ~numlock_changed)

\* C15 (as claimed, the "only if" half): on a pass that takes a position from
\* unbound to PRESSED, a lock callback is invoked for that press only if a
\* latch rule fired on it (a changed flag went from clear to set); a press on
\* which no latch rule fired invokes no lock callback.
CX_C15 ==
    [][IsPass =>
        \A i \in Slots : \A k \in Positions :
            NewlyBound(i, k) =>
                (LockCallsFor(lock_calls', k) # << >> => cyc'[k].fired)
    ]_vars

\* section 4.3, rules 1 to 5 in the order the specification lists them, on the
\* latch values and flags (caps, caps_changed, num, num_changed) with the
\* modifier flags md as they are after the pressed key's own flag is set
RefRule1(md, l) ==
    IF ~l.num_changed /\ md["SHL"] /\ md["ALT"]
    THEN [l EXCEPT !.num = TRUE, !.num_changed = TRUE] ELSE l

RefRule2(md, l) ==
    IF ~l.caps_changed /\ md["SHR"] /\ md["ALT"]
    THEN [l EXCEPT !.caps = TRUE, !.caps_changed = TRUE] ELSE l

RefRule3(md, l) ==
    IF ~l.caps_changed /\ (md["SHL"] \/ md["SHR"])
    THEN [l EXCEPT !.caps = FALSE, !.caps_changed = TRUE] ELSE l

RefRule4(md, l) ==
    IF ~l.num_changed /\ (md["SHL"] \/ md["SHR"])
    THEN [l EXCEPT !.num = FALSE, !.num_changed = TRUE] ELSE l

RefRule5(md, l) ==
    IF ~md["ALT"]
    THEN [l EXCEPT !.caps_changed = FALSE, !.num_changed = FALSE] ELSE l

RefLatch(md, l) ==
    RefRule5(md, RefRule4(md, RefRule3(md, RefRule2(md, RefRule1(md, l)))))

\* the key pressed in slot 1 and the modifier flags once its own flag is set
PressedKey == list[1].p_entry

ModsAfterPress ==
    [m \in ModIds |-> mods[m] \/ (Entry(PressedKey).mod = m)]

\* C19: for every starting combination of modifier flags, latch values and
\* changed flags, a press leaves capslock, numlock and both changed flags as
\* rules 1 to 5 applied in the specification's order leave them; a ShiftRight
\* press with Alt active and clear flags ends with capslock set, and a shift
\* press without Alt and with clear flags ends with both latches cleared.
C19_LatchOrder ==
    [][(list[1].state = "IDLE" /\ list'[1].state = "PRESSED") =>
        LET ref == RefLatch(ModsAfterPress,
                            [caps |-> capslock, caps_changed |-> capslock_changed,
                             num |-> numlock, num_changed |-> numlock_changed])
        IN  /\ mods' = ModsAfterPress
            /\ capslock' = ref.caps
            /\ capslock_changed' = ref.caps_changed
            /\ numlock' = ref.num
            /\ numlock_changed' = ref.num_changed
            /\ ( /\ PressedKey = 38
                 /\ mods["ALT"]
                 /\ ~capslock_changed /\ ~numlock_changed ) => capslock'
            /\ ( /\ PressedKey \in {15, 38}
                 /\ ~mods["ALT"]
                 /\ ~capslock_changed /\ ~numlock_changed ) => (~capslock' /\ ~numlock')
    ]_vars

\* ShiftLeft was pressed with Alt and ShiftRight active, both latches off and
\* both flags clear: capslock and numlock are both enabled
W_C19 ==
    /\ PressedKey = 15
    /\ list[1].state = "PRESSED"
    /\ mods["ALT"] /\ mods["SHR"] /\ mods["SHL"]
    /\ capslock /\ numlock
    /\ capslock_changed /\ numlock_changed
    /\ gest = [caps |-> 1, num |-> 1]

\* the number of entries of the sequence q equal to x
Count(q, x) == Cardinality({ n \in 1 .. Len(q) : q[n] = x })

\* the step injects exactly one event
InjectsOne == (inject_step \/ press_step) /\ Len(events') = 1

\* C16: when the enqueue of an event fails, INT_OVERFLOW is set by exactly one
\* reg_set_bit call if CFG_OVERFLOW_INT is set and by none otherwise, and
\* fifo_enqueue_force is called exactly once if CFG_OVERFLOW_ON is set and not
\* at all otherwise, whatever the other flag is; when the enqueue succeeds the
\* status register is not written and fifo_enqueue_force is not called.
C16_OverflowFlags ==
    [][InjectsOne =>
        IF fifo_room > 0
        THEN /\ fifo_calls' = << "fifo_enqueue" >>
             /\ reg_int' = reg_int
             /\ fifo_room' = fifo_room - 1
        ELSE /\ fifo_calls'[1] = "fifo_enqueue_failed"
             /\ Count(fifo_calls', "fifo_enqueue_failed") = 1
             /\ Count(fifo_calls', "fifo_enqueue") = 0
             /\ Count(fifo_calls', "reg_set_bit") =
                    (IF "OVERFLOW_INT" \in cfg THEN 1 ELSE 0)
             /\ reg_int' = (IF "OVERFLOW_INT" \in cfg THEN reg_int \cup {"OVERFLOW"}
                            ELSE reg_int)
             /\ Count(fifo_calls', "fifo_enqueue_force") =
                    (IF "OVERFLOW_ON" \in cfg THEN 1 ELSE 0)
             /\ fifo_room' = 0
    ]_vars

\* an event met a full fifo with CFG_OVERFLOW_ON set and CFG_OVERFLOW_INT
\* clear: it was force-enqueued and the status bit was left alone
W_C16 ==
    /\ "OVERFLOW_ON" \in cfg
    /\ "OVERFLOW_INT" \notin cfg
    /\ Len(events) = 1
    /\ fifo_calls = << "fifo_enqueue_failed", "fifo_enqueue_force" >>
    /\ reg_int = {}

\* the callbacks of a sequence of invocations
Cbs(q) == [n \in 1 .. Len(q) |-> q[n].cb]

\* C17: a registration appends the callback at the tail of its list and
\* removes none; a step that injects one event invokes every key callback
\* once, in list order; a press that notifies the lock callbacks invokes each
\* once, in list order, and before the key callbacks of that press.
C17_DispatchOrder ==
    [][/\ key_callbacks' # key_callbacks =>
             \E c \in KeyCbs : key_callbacks' = Append(key_callbacks, c)
       /\ lock_callbacks' # lock_callbacks =>
             \E c \in LockCbs : lock_callbacks' = Append(lock_callbacks, c)
       /\ InjectsOne =>
             /\ Cbs(key_calls') = key_callbacks
             /\ \A n \in 1 .. Len(key_calls') :
                   /\ key_calls'[n].chr = events'[1].chr
                   /\ key_calls'[n].st = events'[1].st
       /\ press_step =>
             /\ lock_calls' # << >> => Cbs(lock_calls') = lock_callbacks
             /\ calls' = [n \in 1 .. Len(lock_calls') |->
                             [kind |-> "lock", cb |-> lock_calls'[n].cb]]
                          \o [n \in 1 .. Len(key_calls') |->
                                [kind |-> "key", cb |-> key_calls'[n].cb]]
    ]_vars

\* two key callbacks ("app" first) and two lock callbacks ("led" first) were
\* registered and ShiftRight was pressed with Alt active: both lock callbacks
\* and then both key callbacks were invoked, each list in registration order
W_C17 ==
    /\ key_callbacks = << "app", "usb" >>
    /\ lock_callbacks = << "led", "irq" >>
    /\ list[1].state = "PRESSED"
    /\ calls = << [kind |-> "lock", cb |-> "led"], [kind |-> "lock", cb |-> "irq"],
                  [kind |-> "key", cb |-> "app"], [kind |-> "key", cb |-> "usb"] >>

\* the characters keyboard_is_key_down is asked about: the empty key, the
\* modifier markers, backspace, '7', 'Z' and 'z'
DownChars == {0, KEY_MOD_ALT, KEY_MOD_SHL, KEY_MOD_SHR, KEY_MOD_SYM, 8, 55, 90, 122}

\* some bound slot in PRESSED or HOLD, other than the slot of position k, has
\* effective key c (k = NULL excludes no slot)
DownElsewhere(lst, c, k) ==
    \E i \in Slots :
        /\ lst[i].p_entry # NULL
        /\ lst[i].p_entry # k
        /\ lst[i].state \in {"PRESSED", "HOLD"}
        /\ lst[i].effective_key = c

\* C18: keyboard_is_key_down(c) is true exactly when some bound slot in
\* PRESSED or HOLD has effective key c; it is true after the pass that injects
\* a Pressed or Hold event for c, and after the pass that injects the Released
\* event the released slot no longer counts.
C18_IsKeyDown ==
    /\ [](\A c \in DownChars :
            keyboard_is_key_down(list, c) <=> DownElsewhere(list, c, NULL))
    /\ [][IsPass =>
            \A n \in 1 .. Len(events') :
                IF events'[n].st \in {"PRESSED", "HOLD"}
                THEN keyboard_is_key_down(list', events'[n].chr)
                ELSE keyboard_is_key_down(list', events'[n].chr)
                         <=> DownElsewhere(list', events'[n].chr, events'[n].pos)
       ]_vars

\* ShiftLeft is in HOLD and reported as its marker, 'Z' has been released and
\* its slot is in RELEASED: the marker is down, 'Z' is not
W_C18 ==
    \E i, j \in Slots :
        /\ list[i].p_entry = 15
        /\ list[i].state = "HOLD"
        /\ list[i].effective_key = KEY_MOD_SHL
        /\ list[j].p_entry = 21
        /\ list[j].state = "RELEASED"
        /\ list[j].effective_key = 90
        /\ keyboard_is_key_down(list, KEY_MOD_SHL)
        /\ ~keyboard_is_key_down(list, 90)

\* C20 (as claimed): every scan pass re-arms the alarm, for the deadline of
\* the pass plus REG_ID_FRQ milliseconds, whatever the value of REG_ID_FRQ.
CX_C20 ==
    [][IsPass => (deadline' # NULL /\ deadline' = deadline + reg_frq)]_vars

\* C21: between passes the flag of a modifier role is active if and only if
\* some bound slot references a key of that role, and every bound slot is in
\* PRESSED, HOLD or RELEASED; a modifier key that a pass found pressed and
\* dropped for want of a free slot has its flag inactive.
C21_FlagIffBoundSlot ==
    /\ \A m \in ModIds :
          mods[m] <=> \E i \in Slots :
                         /\ list[i].p_entry # NULL
                         /\ Entry(list[i].p_entry).mod = m
    /\ \A i \in Slots :
          list[i].p_entry # NULL => list[i].state \in {"PRESSED", "HOLD", "RELEASED"}
    /\ \A k \in dropped :
          Entry(k).mod # "NONE" => ~mods[Entry(k).mod]

\* ShiftLeft was found pressed by a pass that had no free slot for it: every
\* slot is bound to another key and the ShiftLeft flag is inactive
W_C21 ==
    /\ 15 \in dropped
    /\ 15 \in phys
    /\ Bound(list) = Slots
    /\ \A i \in Slots : list[i].p_entry # 15
    /\ ~mods["SHL"]

\* every slot is free and every modifier flag is inactive
AllFree ==
    /\ \A i \in Slots : list[i] = [FreeItem EXCEPT !.hold_start_time = list[i].hold_start_time]
    /\ \A m \in ModIds : ~mods[m]

\* C22: once passes sample no position pressed, the slots drain: after one
\* such pass no slot is in PRESSED, after two in a row none is in PRESSED or
\* HOLD, and after three in a row every slot is free (no entry, IDLE, no
\* cached key) and every modifier flag is inactive; further such passes leave
\* it so and inject no event.
C22_NoSlotLeak ==
    /\ [](/\ quiet >= 1 => \A i \in Slots : list[i].state # "PRESSED"
          /\ quiet >= 2 => \A i \in Slots : list[i].state \notin {"PRESSED", "HOLD"}
          /\ quiet >= 3 => AllFree)
    /\ [][(IsPass /\ quiet >= 3 /\ phys = {}) => (AllFree' /\ events' = << >>)]_vars

\* a key bound by the first pass was released and the three passes that
\* followed sampled nothing pressed: every slot is free again
W_C22 ==
    /\ quiet = 3
    /\ ticks = 4
    /\ jammed = {}
    /\ AllFree
    /\ \E i \in Slots : list[i].hold_start_time > 0

\* the invocations of callback c among those of q
CallsOf(q, c) == SelectSeq(q, LAMBDA x : x.cb = c)

\* the callbacks registered in a list
Registered(cbs) == { cbs[n] : n \in 1 .. Len(cbs) }

\* C23: a step that injects one event invokes each registered key callback
\* exactly once, with the event's character and state, and invokes no other,
\* whether the fifo took the event, refused it, or took it by force, and
\* whatever the overflow flags are.
C23_NotifyDespiteOverflow ==
    [][InjectsOne =>
        /\ \A c \in Registered(key_callbacks) :
              CallsOf(key_calls', c) =
                  << [cb |-> c, chr |-> events'[1].chr, st |-> events'[1].st] >>
        /\ Len(key_calls') = Cardinality(Registered(key_callbacks))
        /\ Len(fifo_calls') >= 1
        /\ fifo_calls'[1] = (IF fifo_room = 0 THEN "fifo_enqueue_failed" ELSE "fifo_enqueue")
    ]_vars

\* with both overflow flags clear an event met a full fifo and was lost to it,
\* and both registered key callbacks were notified of it once
W_C23 ==
    /\ cfg \cap OverflowBits = {}
    /\ fifo_calls = << "fifo_enqueue_failed" >>
    /\ Len(events) = 1
    /\ Len(key_callbacks) = 2
    /\ Cbs(key_calls) = key_callbacks
    /\ \A n \in 1 .. 2 : key_calls[n].chr = events[1].chr /\ key_calls[n].st = events[1].st

=============================================================================
